---- MODULE Spec2Model ----
(***************************************************************************)
(* A model of app/main.py: the read loop of the shell, the pipeline        *)
(* splitter, the redirection scan of run_single_command, the pipeline      *)
(* executor (pipe / fork / dup2 / close / waitpid) and the built-ins.      *)
(*                                                                         *)
(* Strings are sequences of one-character strings, so that the substring   *)
(* tests, split() and strip() of the source are computed as Python         *)
(* computes them.  Every process has its own descriptor table; fork()      *)
(* copies the table, the working directory and command_history.            *)
(***************************************************************************)
EXTENDS Integers, Sequences, FiniteSets, TLC

(***************************************************************************)
(* Python string primitives                                                *)
(***************************************************************************)
IsSpace(c) == c = " "

RECURSIVE LStrip(_)
LStrip(s) == IF s # <<>> /\ IsSpace(Head(s)) THEN LStrip(Tail(s)) ELSE s

RECURSIVE RStrip(_)
RStrip(s) ==
    IF s # <<>> /\ IsSpace(s[Len(s)]) THEN RStrip(SubSeq(s, 1, Len(s) - 1)) ELSE s

\* str.strip()
Strip(s) == RStrip(LStrip(s))

\* the positions at which pat occurs in s
Occurrences(s, pat) ==
    {k \in 1..(Len(s) - Len(pat) + 1) : SubSeq(s, k, k + Len(pat) - 1) = pat}

\* pat in s
Contains(s, pat) == Occurrences(s, pat) # {}

SetMin(S) == CHOOSE x \in S : \A y \in S : x <= y

\* s.split(sep): non-overlapping occurrences, left to right
RECURSIVE Split(_, _)
Split(s, sep) ==
    IF ~Contains(s, sep) THEN <<s>>
    ELSE LET k == SetMin(Occurrences(s, sep))
         IN  <<SubSeq(s, 1, k - 1)>> \o Split(SubSeq(s, k + Len(sep), Len(s)), sep)

\* " ".join(tokens)
RECURSIVE Join(_)
Join(tokens) ==
    IF tokens = <<>> THEN <<>>
    ELSE IF Len(tokens) = 1 THEN tokens[1]
    ELSE tokens[1] \o <<" ">> \o Join(Tail(tokens))

(***************************************************************************)
(* shlex.split(s, posix=True).  A raised ValueError ("No closing           *)
(* quotation", "No escaped character") is the one-token result LexError.   *)
(***************************************************************************)
LexError == <<"ValueError">>

RECURSIVE Lex(_, _, _, _, _)
Lex(s, i, cur, has, mode) ==
    IF i > Len(s) THEN
        IF mode # "u" THEN <<LexError>>
        ELSE IF has THEN <<cur>> ELSE <<>>
    ELSE LET c == s[i] IN
      CASE mode = "u" ->
             IF IsSpace(c) THEN
                 (IF has THEN <<cur>> ELSE <<>>) \o Lex(s, i + 1, <<>>, FALSE, "u")
             ELSE IF c = "'" THEN Lex(s, i + 1, cur, TRUE, "s")
             ELSE IF c = "\"" THEN Lex(s, i + 1, cur, TRUE, "d")
             ELSE IF c = "\\" THEN
                 IF i = Len(s) THEN <<LexError>>
                 ELSE Lex(s, i + 2, Append(cur, s[i + 1]), TRUE, "u")
             ELSE Lex(s, i + 1, Append(cur, c), TRUE, "u")
        [] mode = "s" ->
             IF c = "'" THEN Lex(s, i + 1, cur, TRUE, "u")
             ELSE Lex(s, i + 1, Append(cur, c), TRUE, "s")
        [] OTHER ->
             IF c = "\"" THEN Lex(s, i + 1, cur, TRUE, "u")
             ELSE IF c = "\\" THEN
                 IF i = Len(s) THEN <<LexError>>
                 ELSE IF s[i + 1] \in {"\"", "\\"}
                      THEN Lex(s, i + 2, Append(cur, s[i + 1]), TRUE, "d")
                      ELSE Lex(s, i + 2, cur \o <<c, s[i + 1]>>, TRUE, "d")
             ELSE Lex(s, i + 1, Append(cur, c), TRUE, "d")

ShlexSplit(s) == Lex(s, 1, <<>>, FALSE, "u")

ShlexRaises(s) ==
    LET r == ShlexSplit(s) IN r # <<>> /\ r[Len(r)] = LexError

\* parse_input: (command, args, tokens)
parse_input(input_str) ==
    LET tokens == ShlexSplit(input_str)
    IN  [command |-> IF tokens # <<>> THEN tokens[1] ELSE <<>>,
         args    |-> IF tokens # <<>> THEN Join(Tail(tokens)) ELSE <<>>,
         tokens  |-> tokens]

\* parse_pipeline: split at every | outside quotes
RECURSIVE PipelineScan(_, _, _, _, _)
PipelineScan(s, i, current_cmd, quote_char, commands) ==
    IF i > Len(s) THEN
        IF Strip(current_cmd) # <<>> THEN Append(commands, Strip(current_cmd))
        ELSE commands
    ELSE LET char == s[i] IN
        IF char \in {"\"", "'"} /\ quote_char = "" THEN
            PipelineScan(s, i + 1, Append(current_cmd, char), char, commands)
        ELSE IF char = quote_char /\ quote_char # "" THEN
            PipelineScan(s, i + 1, Append(current_cmd, char), "", commands)
        ELSE IF char = "|" /\ quote_char = "" THEN
            PipelineScan(s, i + 1, <<>>, quote_char,
                         Append(commands, Strip(current_cmd)))
        ELSE PipelineScan(s, i + 1, Append(current_cmd, char), quote_char, commands)

parse_pipeline(input_str) == PipelineScan(input_str, 1, <<>>, "", <<>>)

(***************************************************************************)
(* Words of the command lines                                              *)
(***************************************************************************)
W_exit    == <<"e", "x", "i", "t">>
W_pwd     == <<"p", "w", "d">>
W_cd      == <<"c", "d">>
W_type    == <<"t", "y", "p", "e">>
W_echo    == <<"e", "c", "h", "o">>
W_history == <<"h", "i", "s", "t", "o", "r", "y">>
W_cat     == <<"c", "a", "t">>
W_ls      == <<"l", "s">>
W_nosuch  == <<"n", "o">>
W_f       == <<"f">>
W_g       == <<"g">>
W_h       == <<"h">>
W_x       == <<"x">>
W_r       == <<"-", "r">>
W_w       == <<"-", "w">>
W_a       == <<"-", "a">>
W_tilde   == <<"~">>
W_gt      == <<">">>
W_gtgt    == <<">", ">">>
W_1gt     == <<"1", ">">>
W_1gtgt   == <<"1", ">", ">">>
W_2gt     == <<"2", ">">>
W_2gtgt   == <<"2", ">", ">">>
W_bar     == <<"|">>

\* the directories that exist; HOME
DirRoot == <<"/">>
DirTmp  == <<"/", "t">>
Dirs    == {DirRoot, DirTmp}
HOME    == DirTmp

\* a path no open() can create: its directory is missing
W_bad   == <<"/", "n", "/", "f">>

\* the directory of PATH and the executables in it
BinDir      == <<"/", "b", "/">>
Executables == {W_cat, W_ls}

\* BuiltinFactory.builtins: echo is commented out of the registry
BuiltinRegistry == {W_exit, W_pwd, W_cd, W_type, W_history}

\* BuiltinFactory.is_builtin
is_builtin(command) == command \in BuiltinRegistry

\* shutil.which(command): the path, or the empty string for None
which(command) ==
    IF command \in Executables THEN BinDir \o command ELSE <<>>

(***************************************************************************)
(* run_single_command, lines 408-449: the redirection scan of the raw      *)
(* string.  None and "" are both the empty sequence: the code only tests   *)
(* the truth of stdout_file and stderr_file.                               *)
(***************************************************************************)
StderrScan(input_str) ==
    IF Contains(input_str, W_2gtgt) THEN
        LET parts == Split(input_str, W_2gtgt)
        IN  [rest |-> Strip(parts[1]), stderr_file |-> Strip(parts[2]),
             stderr_append |-> TRUE]
    ELSE IF Contains(input_str, W_2gt) THEN
        LET parts == Split(input_str, W_2gt)
        IN  [rest |-> Strip(parts[1]), stderr_file |-> Strip(parts[2]),
             stderr_append |-> FALSE]
    ELSE [rest |-> input_str, stderr_file |-> <<>>, stderr_append |-> FALSE]

StdoutScan(input_str) ==
    IF Contains(input_str, W_1gtgt) THEN
        LET parts == Split(input_str, W_1gtgt)
        IN  [cmd_part |-> Strip(parts[1]), stdout_file |-> Strip(parts[2]),
             stdout_append |-> TRUE]
    ELSE IF Contains(input_str, W_1gt) THEN
        LET parts == Split(input_str, W_1gt)
        IN  [cmd_part |-> Strip(parts[1]), stdout_file |-> Strip(parts[2]),
             stdout_append |-> FALSE]
    ELSE IF Contains(input_str, W_gtgt) THEN
        LET parts == Split(input_str, W_gtgt)
        IN  [cmd_part |-> Strip(parts[1]), stdout_file |-> Strip(parts[2]),
             stdout_append |-> TRUE]
    ELSE IF Contains(input_str, W_gt) THEN
        LET parts == Split(input_str, W_gt)
        IN  [cmd_part |-> Strip(parts[1]), stdout_file |-> Strip(parts[2]),
             stdout_append |-> FALSE]
    ELSE [cmd_part |-> input_str, stdout_file |-> <<>>, stdout_append |-> FALSE]

ParseRedirections(input_str) ==
    LET e == StderrScan(input_str)
        o == StdoutScan(e.rest)
    IN  [cmd_part      |-> o.cmd_part,
         stdout_file   |-> o.stdout_file,
         stdout_append |-> o.stdout_append,
         stderr_file   |-> e.stderr_file,
         stderr_append |-> e.stderr_append]

(***************************************************************************)
(* Descriptor tables.  A table maps each open descriptor number to the     *)
(* open file it refers to: the terminal, one end of pipe id, or a file.    *)
(***************************************************************************)
TTY          == [kind |-> "tty",  id |-> 0, path |-> <<>>]
PipeEnd(k, e) == [kind |-> e,     id |-> k, path |-> <<>>]
FileOf(p)    == [kind |-> "file", id |-> 0, path |-> p]

IsPipe(d) == d.kind \in {"r", "w"}

\* the lowest descriptor number not in use
LowestFree(t) == SetMin((0..Cardinality(DOMAIN t)) \ DOMAIN t)

\* os.close(fd)
Close(t, fd) == [k \in (DOMAIN t) \ {fd} |-> t[k]]

\* os.dup2(src, dst)
Dup2(t, src, dst) == [k \in (DOMAIN t) \cup {dst} |-> IF k = dst THEN t[src] ELSE t[k]]

\* a new descriptor, the lowest free, for the open file d (os.dup, open, os.pipe)
Install(t, d) == [k \in (DOMAIN t) \cup {LowestFree(t)} |->
                     IF k = LowestFree(t) THEN d ELSE t[k]]

\* the descriptors of the table that refer to a pipe end
PipeFds(t) == {k \in DOMAIN t : IsPipe(t[k])}

\* the descriptors of the table that refer to a file
FileFds(t) == {k \in DOMAIN t : t[k].kind = "file"}

\* open(path, "w" | "a") raises when the directory of the path is missing
OpenFails(path) == Len(path) >= 3 /\ SubSeq(path, 1, 3) = <<"/", "n", "/">>

(***************************************************************************)
(* The built-ins.  Builtin(command, args, st) runs the built-in on the     *)
(* state st = [cwd, hist, fs] of the process that executes it and gives    *)
(* the new state, the lines printed to stdout (out) and stderr (err) and   *)
(* how execute() ended: "ok", "SystemExit" or "Exception".                 *)
(***************************************************************************)
OutLine(tag, n, s) == [tag |-> tag, n |-> n, s |-> s]

Done(st, out, err, result) ==
    [cwd |-> st.cwd, hist |-> st.hist, fs |-> st.fs,
     out |-> out, err |-> err, result |-> result]

\* Exit.execute: exit(0), whatever the arguments
ExitExecute(args, st) == Done(st, <<>>, <<>>, "SystemExit")

\* PWD.execute
PwdExecute(args, st) == Done(st, <<OutLine("pwd", 0, st.cwd)>>, <<>>, "ok")

\* CD.execute
CdExecute(args, st) ==
    LET path == IF Strip(args) = W_tilde THEN HOME ELSE Strip(args)
    IN  IF path = <<>> THEN Done(st, <<>>, <<>>, "ok")
        ELSE IF path \in Dirs
             THEN Done([st EXCEPT !.cwd = path], <<>>, <<>>, "ok")
             ELSE Done(st, <<>>, <<OutLine("cd: No such file or directory", 0, args)>>,
                       "ok")

\* TypeExplain.find_in_path
find_in_path(cmd) == IF cmd \in Executables THEN BinDir \o cmd ELSE <<>>

\* the names TypeExplain.execute calls built-ins
TypeBuiltinNames == {W_exit, W_pwd, W_cd, W_type, W_echo, W_history}

TypeLine(token) ==
    IF token \in TypeBuiltinNames THEN OutLine("is a shell builtin", 0, token)
    ELSE IF find_in_path(token) # <<>>
         THEN OutLine("is", 0, Join(<<token, find_in_path(token)>>))
    ELSE OutLine("not found", 0, token)

\* TypeExplain.execute
TypeExecute(args, st) ==
    IF args = <<>> THEN Done(st, <<OutLine("type: usage", 0, <<>>)>>, <<>>, "ok")
    ELSE IF ShlexRaises(args) THEN Done(st, <<>>, <<>>, "Exception")
    ELSE LET toks == ShlexSplit(args)
         IN  Done(st, [k \in 1..Len(toks) |-> TypeLine(toks[k])], <<>>, "ok")

\* int(s): the value of a decimal numeral
DigitValue(c) ==
    CASE c = "0" -> 0 [] c = "1" -> 1 [] c = "2" -> 2 [] c = "3" -> 3 [] c = "4" -> 4
      [] c = "5" -> 5 [] c = "6" -> 6 [] c = "7" -> 7 [] c = "8" -> 8 [] OTHER -> 9

IsDigit(c) == c \in {"0", "1", "2", "3", "4", "5", "6", "7", "8", "9"}

RECURSIVE DigitsValue(_)
DigitsValue(s) ==
    IF s = <<>> THEN 0 ELSE 10 * DigitsValue(SubSeq(s, 1, Len(s) - 1)) + DigitValue(s[Len(s)])

IsNumeral(s) ==
    LET d == IF s # <<>> /\ s[1] \in {"-", "+"} THEN Tail(s) ELSE s
    IN  d # <<>> /\ \A k \in 1..Len(d) : IsDigit(d[k])

IntOf(s) ==
    IF s[1] = "-" THEN 0 - DigitsValue(Tail(s))
    ELSE IF s[1] = "+" THEN DigitsValue(Tail(s)) ELSE DigitsValue(s)

\* History.show_history
show_history(histories, start_index) ==
    [k \in 1..Len(histories) |-> OutLine("history", start_index + k - 1, histories[k])]

\* command_history[-n:]
LastN(h, n) ==
    IF n = 0 THEN h
    ELSE IF n > 0 THEN SubSeq(h, (IF Len(h) - n < 0 THEN 0 ELSE Len(h) - n) + 1, Len(h))
    ELSE SubSeq(h, (IF 0 - n > Len(h) THEN Len(h) ELSE 0 - n) + 1, Len(h))

\* the non-empty stripped lines of a file
RECURSIVE NonEmptyLines(_)
NonEmptyLines(lines) ==
    IF lines = <<>> THEN <<>>
    ELSE (IF Strip(Head(lines)) # <<>> THEN <<Strip(Head(lines))>> ELSE <<>>)
         \o NonEmptyLines(Tail(lines))

\* History.read_history_file
read_history_file(filename, st) ==
    IF filename \notin DOMAIN st.fs THEN Done(st, <<>>, <<>>, "Exception")
    ELSE Done([st EXCEPT !.hist = st.hist \o NonEmptyLines(st.fs[filename])],
              <<>>, <<>>, "ok")

WriteFile(fs, filename, lines) ==
    [p \in (DOMAIN fs) \cup {filename} |-> IF p = filename THEN lines ELSE fs[p]]

\* History.write_history_file
write_history_file(filename, st) ==
    IF OpenFails(filename) THEN Done(st, <<>>, <<>>, "Exception")
    ELSE Done([st EXCEPT !.fs = WriteFile(st.fs, filename, st.hist)], <<>>, <<>>, "ok")

\* an append that leaves command_history as it is
append_history_file_keeps(filename, st) ==
    IF OpenFails(filename) THEN Done(st, <<>>, <<>>, "Exception")
    ELSE LET old == IF filename \in DOMAIN st.fs THEN st.fs[filename] ELSE <<>>
         IN  Done([st EXCEPT !.fs = WriteFile(st.fs, filename, old \o st.hist)],
                  <<>>, <<>>, "ok")

\* History.append_history_file
append_history_file(filename, st) ==
    IF OpenFails(filename) THEN Done(st, <<>>, <<>>, "Exception")
    ELSE LET old == IF filename \in DOMAIN st.fs THEN st.fs[filename] ELSE <<>>
         IN  Done([st EXCEPT !.fs = WriteFile(st.fs, filename, old \o st.hist),
                             !.hist = <<>>],
                  <<>>, <<>>, "ok")

\* History.execute
HistoryExecute(args, st) ==
    IF Strip(args) = <<>> THEN Done(st, show_history(st.hist, 1), <<>>, "ok")
    ELSE IF ShlexRaises(Strip(args)) THEN Done(st, <<>>, <<>>, "Exception")
    ELSE LET args_list == ShlexSplit(Strip(args)) IN
         IF args_list[1] \in {W_r, W_w, W_a} THEN
             IF Len(args_list) < 2 THEN Done(st, <<>>, <<>>, "Exception")
             ELSE IF args_list[1] = W_r THEN read_history_file(args_list[2], st)
             ELSE IF args_list[1] = W_w THEN write_history_file(args_list[2], st)
             ELSE append_history_file(args_list[2], st)
         ELSE IF ~IsNumeral(args_list[1]) THEN Done(st, <<>>, <<>>, "Exception")
         ELSE LET n == IntOf(args_list[1])
              IN  Done(st, show_history(LastN(st.hist, n), Len(st.hist) - n + 1),
                       <<>>, "ok")

\* BuiltinFactory.create(command).execute(args)
Builtin(command, args, st) ==
    CASE command = W_exit    -> ExitExecute(args, st)
      [] command = W_pwd     -> PwdExecute(args, st)
      [] command = W_cd      -> CdExecute(args, st)
      [] command = W_type    -> TypeExecute(args, st)
      [] OTHER               -> HistoryExecute(args, st)

(***************************************************************************)
(* The command lines typed at the prompt                                   *)
(***************************************************************************)
L_blank       == <<" ">>
L_pwd         == W_pwd
L_cd          == Join(<<W_cd, DirTmp>>)
L_ls          == W_ls
L_nosuch      == W_nosuch
L_exit        == W_exit
L_history_x   == Join(<<W_history, W_x>>)
L_pwd_gt      == Join(<<W_pwd, W_gt, W_f>>)
L_type_gt     == Join(<<W_type, W_ls, W_gt, W_f>>)
L_ls_gt       == Join(<<W_ls, W_gt, W_f>>)
L_ls_gtgt     == Join(<<W_ls, W_gtgt, W_f>>)
L_ls_2gt      == Join(<<W_ls, W_2gt, W_g>>)
L_ls_gt_gt    == Join(<<W_ls, W_gt, W_f, W_gt, W_g>>)
L_ls_gt_2gt   == Join(<<W_ls, W_gt, W_f, W_2gt, W_g>>)
L_ls_gt_2bad  == Join(<<W_ls, W_gt, W_f, W_2gt, W_bad>>)
L_ls_gtbad    == Join(<<W_ls, W_gt, W_bad>>)
L_gt          == Join(<<W_gt, W_f>>)
L_badquote    == Join(<<W_ls, <<"'">>>>)
\* one stage and a trailing |: execute_pipeline hands it to run_single_command
L_pwd_gt_bar      == Join(<<W_pwd, W_gt, W_f, W_bar>>)
L_pwd_gt_2gt_bar  == Join(<<W_pwd, W_gt, W_f, W_2gt, W_g, W_bar>>)
L_pwd_gt_2bad_bar == Join(<<W_pwd, W_gt, W_f, W_2gt, W_bad, W_bar>>)
L_pwd_gtbad_bar   == Join(<<W_pwd, W_gt, W_bad, W_bar>>)
L_pwd_gt_gt_bar   == Join(<<W_pwd, W_gt, W_f, W_gt, W_g, W_bar>>)
L_exit_gt_bar     == Join(<<W_exit, W_gt, W_f, W_bar>>)
L_hist_x_gt_bar   == Join(<<W_history, W_x, W_gt, W_f, W_2gt, W_g, W_bar>>)
L_cd_gt_bar       == Join(<<W_cd, DirTmp, W_gt, W_f, W_bar>>)
L_quote_bar       == Join(<<W_ls, <<"'", "|">>>>)
L_nosuch_bar      == Join(<<W_nosuch, W_bar>>)

SingleLines ==
    {L_blank, L_pwd, L_cd, L_ls, L_nosuch, L_exit, L_history_x, L_pwd_gt, L_type_gt,
     L_ls_gt, L_ls_gtgt, L_ls_2gt, L_ls_gt_gt, L_ls_gt_2gt, L_ls_gt_2bad, L_ls_gtbad,
     L_gt, L_badquote, L_pwd_gt_bar, L_pwd_gt_2gt_bar, L_pwd_gt_2bad_bar,
     L_pwd_gtbad_bar, L_pwd_gt_gt_bar, L_exit_gt_bar, L_hist_x_gt_bar, L_cd_gt_bar,
     L_quote_bar, L_nosuch_bar}

\* the number of lines read in one session
MaxLines == 2

(***************************************************************************)
(* State                                                                   *)
(***************************************************************************)
VARIABLES
    pc,               \* where the shell process is
    input_str,        \* the line being executed
    nread,            \* lines read so far
    histfile,         \* os.environ.get('HISTFILE'), <<>> when unset
    cwd,              \* the working directory of the shell process
    command_history,  \* the global command_history of the shell process
    fs,               \* the history files: path -> lines
    fds,              \* the descriptor table of the shell process
    exit_status,      \* the exit status of the shell process, -1 while it runs
    rs,               \* the locals of run_single_command (entry_fds: the shell's
                      \* descriptor table when it was entered, an observation)
    commands,         \* execute_pipeline: the stages
    pipes,            \* execute_pipeline: the (r_fd, w_fd) pairs
    processes,        \* execute_pipeline: the pids, in spawn order
    idx,              \* execute_pipeline: the index of the loop in progress
    outcome,          \* execute_pipeline: how the current pipeline is ending
    child,            \* the forked children: pid -> process state
    written,          \* observation: the lines written during this line, and where
    ran,              \* observation: the commands run during this line
    opened,           \* observation: the paths open()ed for redirection, this line
    trace,            \* observation: pipe, fork, close, kill, wait of the shell
    journal           \* observation: every entry ever appended to the shell's
                      \* command_history (entries), how many of them there were
                      \* at the last history -a (flushed), the line last typed (raw)

shellVars == <<pc, input_str, nread, histfile, cwd, command_history, fs, fds,
               exit_status>>
pipeVars  == <<commands, pipes, processes, idx, outcome, child, trace>>
obsVars   == <<written, ran, opened>>
vars      == <<shellVars, rs, pipeVars, obsVars, journal>>

RsNone ==
    [input |-> <<>>, command |-> <<>>, args |-> <<>>, tokens |-> <<>>,
     stdout_file |-> <<>>, stdout_append |-> FALSE,
     stderr_file |-> <<>>, stderr_append |-> FALSE,
     original_stdout |-> -1, original_stderr |-> -1,
     stdout_handle |-> -1, stderr_handle |-> -1, exc |-> "none",
     entry_fds |-> <<>>]

\* load_history_from_file
load_history_from_file(hf, files) ==
    IF hf # <<>> /\ hf \in DOMAIN files THEN NonEmptyLines(files[hf]) ELSE <<>>

\* save_history_to_file, registered with atexit
save_history_to_file(files, hist) ==
    IF histfile # <<>> /\ ~OpenFails(histfile) THEN WriteFile(files, histfile, hist)
    ELSE files

InitFs == [p \in {W_h} |-> <<L_ls, L_pwd>>]

Init ==
    /\ pc = "read"
    /\ input_str = <<>>
    /\ nread = 0
    /\ histfile \in {<<>>, W_h}
    /\ cwd = DirRoot
    /\ fs = InitFs
    /\ command_history = load_history_from_file(histfile, fs)
    /\ fds = [k \in 0..2 |-> TTY]
    /\ exit_status = -1
    /\ rs = RsNone
    /\ commands = <<>>
    /\ pipes = <<>>
    /\ processes = <<>>
    /\ idx = 0
    /\ outcome = "none"
    /\ child = <<>>
    /\ written = {}
    /\ ran = {}
    /\ opened = {}
    /\ trace = <<>>
    /\ journal = [entries |-> command_history, flushed |-> 0, raw |-> <<>>]

\* the lines a process prints, with the open file each goes to
Emit(t, r) ==
    {[to |-> t[1], line |-> r.out[k]] : k \in 1..Len(r.out)}
    \cup {[to |-> t[2], line |-> r.err[k]] : k \in 1..Len(r.err)}

\* a command starts to run in process pid, with descriptor table t
RanRecord(pid, kind, tokens, t) ==
    [pid |-> pid, kind |-> kind, tokens |-> tokens, fds |-> t]

\* the shell process ends: the atexit handler runs, its descriptors are gone
ShellExits(status, files, hist) ==
    /\ pc' = "exited"
    /\ exit_status' = status
    /\ fs' = save_history_to_file(files, hist)
    /\ fds' = <<>>

(***************************************************************************)
(* The read loop, lines 539-562                                            *)
(***************************************************************************)
IsPrefix(a, b) == Len(a) <= Len(b) /\ SubSeq(b, 1, Len(a)) = a

\* the journal after a step that took the shell's command_history from
\* before to after: what was appended is entered; a successful
\* append_history_file (flush) moves the mark
Journal(j, before, after, flush) ==
    LET e == IF IsPrefix(before, after)
             THEN j.entries \o SubSeq(after, Len(before) + 1, Len(after))
             ELSE j.entries
    IN  [j EXCEPT !.entries = e, !.flushed = IF flush THEN Len(e) ELSE @]

\* the call History.append_history_file(file) of a history -a <file> line
IsAppendCall(command, args) ==
    /\ command = W_history
    /\ ~ShlexRaises(Strip(args))
    /\ Len(ShlexSplit(Strip(args))) >= 2
    /\ ShlexSplit(Strip(args))[1] = W_a

\* line 544: if not input_str: continue
Skipped(line) == line = <<>>

\* a loop that records a line twice
RecordedTwice(hist, line) == Append(Append(hist, line), line)

\* line 547: command_history.append(input_str)
Recorded(hist, line) == Append(hist, line)

\* input("$ ").strip(), the two history appends
ReadLine(Lines, max) ==
    /\ pc = "read"
    /\ nread < max
    /\ \E raw \in Lines :
        LET line == Strip(raw) IN
        /\ nread' = nread + 1
        /\ IF Skipped(line)
           THEN UNCHANGED <<pc, input_str, command_history, rs, obsVars, pipeVars>>
           ELSE /\ pc' = "dispatch"
                /\ input_str' = line
                /\ command_history' = Recorded(command_history, line)
                /\ rs' = RsNone
                /\ written' = {} /\ ran' = {} /\ opened' = {}
                /\ commands' = <<>> /\ pipes' = <<>> /\ processes' = <<>>
                /\ idx' = 0 /\ outcome' = "none" /\ child' = <<>> /\ trace' = <<>>
        /\ journal' = [Journal(journal, command_history, command_history', FALSE)
                          EXCEPT !.raw = raw]
    /\ UNCHANGED <<histfile, cwd, fs, fds, exit_status>>

\* EOFError: break, and the interpreter exits
ReadEOF ==
    /\ pc = "read"
    /\ ShellExits(0, fs, command_history)
    /\ UNCHANGED <<input_str, nread, histfile, journal, cwd, command_history, rs, pipeVars,
                   obsVars>>

\* '|' in input_str: run_external_command -> parse_pipeline -> execute_pipeline
DispatchPipeline ==
    /\ pc = "dispatch"
    /\ Contains(input_str, W_bar)
    /\ LET cmds == parse_pipeline(input_str) IN
       /\ commands' = cmds
       /\ IF Len(cmds) = 1
          THEN /\ pc' = "rs" /\ rs' = [RsNone EXCEPT !.input = cmds[1], !.entry_fds = fds]
          ELSE /\ pc' = "pipe_create" /\ rs' = rs
    /\ UNCHANGED <<input_str, nread, histfile, journal, cwd, command_history, fs, fds,
                   exit_status, pipes, processes, idx, outcome, child, trace, obsVars>>

\* shlex raises in parse_input: nothing in the loop catches a ValueError
DispatchLexError ==
    /\ pc = "dispatch"
    /\ ~Contains(input_str, W_bar)
    /\ ShlexRaises(input_str)
    /\ ShellExits(1, fs, command_history)
    /\ UNCHANGED <<input_str, nread, histfile, journal, cwd, command_history, rs, pipeVars,
                   obsVars>>

\* a built-in on a line without |: builtin.execute(args), in the shell process
DispatchBuiltin ==
    /\ pc = "dispatch"
    /\ ~Contains(input_str, W_bar)
    /\ ~ShlexRaises(input_str)
    /\ LET p == parse_input(input_str)
           r == Builtin(p.command, p.args, [cwd |-> cwd, hist |-> command_history,
                                            fs |-> fs])
       IN  /\ is_builtin(p.command)
           /\ written' = written \cup Emit(fds, r)
           /\ ran' = ran \cup {RanRecord(0, "builtin", p.tokens, fds)}
           /\ cwd' = r.cwd
           /\ command_history' = r.hist
           /\ journal' = Journal(journal, command_history, r.hist,
                                 IsAppendCall(p.command, p.args) /\ r.result = "ok")
           /\ IF r.result = "ok"
              THEN /\ pc' = "read" /\ fs' = r.fs
                   /\ UNCHANGED <<fds, exit_status>>
              ELSE ShellExits(IF r.result = "SystemExit" THEN 0 ELSE 1, r.fs, r.hist)
    /\ UNCHANGED <<input_str, nread, histfile, rs, pipeVars, opened>>

\* anything else on a line without |: run_external_command -> run_single_command
DispatchExternal ==
    /\ pc = "dispatch"
    /\ ~Contains(input_str, W_bar)
    /\ ~ShlexRaises(input_str)
    /\ ~is_builtin(parse_input(input_str).command)
    /\ pc' = "rs"
    /\ rs' = [RsNone EXCEPT !.input = input_str, !.entry_fds = fds]
    /\ UNCHANGED <<input_str, nread, histfile, journal, cwd, command_history, fs, fds,
                   exit_status, pipeVars, obsVars>>

(***************************************************************************)
(* run_single_command, lines 407-506                                       *)
(***************************************************************************)
Say(t, tag, what) == {[to |-> t[1], line |-> OutLine(tag, 0, what)]}

\* lines 408-451 and the tests of lines 453 and 483-486
RsParse ==
    /\ pc = "rs"
    /\ LET rd == ParseRedirections(rs.input) IN
       IF ShlexRaises(rd.cmd_part)
       THEN /\ ShellExits(1, fs, command_history)
            /\ UNCHANGED <<rs, written>>
       ELSE LET p == parse_input(rd.cmd_part) IN
            /\ rs' = [rs EXCEPT !.command = p.command, !.args = p.args,
                                !.tokens = p.tokens,
                                !.stdout_file = rd.stdout_file,
                                !.stdout_append = rd.stdout_append,
                                !.stderr_file = rd.stderr_file,
                                !.stderr_append = rd.stderr_append]
            /\ pc' = IF p.command = <<>> THEN "read"
                     ELSE IF is_builtin(p.command) THEN "rs_builtin_redirect"
                     ELSE IF which(p.command) = <<>> THEN "read"
                     ELSE "rs_ext_open"
            /\ written' = IF p.command # <<>> /\ ~is_builtin(p.command)
                             /\ which(p.command) = <<>>
                          THEN written \cup Say(fds, "command not found", p.command)
                          ELSE written
            /\ UNCHANGED <<fs, fds, exit_status>>
    /\ UNCHANGED <<input_str, nread, histfile, journal, cwd, command_history, pipeVars, ran,
                   opened>>

\* os.dup(fd); open(file); os.dup2(handle.fileno(), fd); handle.close()
Redirect(t, file, fd) ==
    IF file = <<>> THEN [t |-> t, saved |-> -1, failed |-> FALSE, opened |-> {}]
    ELSE LET saved == LowestFree(t)
             t1    == Install(t, t[fd])
         IN  IF OpenFails(file)
             THEN [t |-> t1, saved |-> saved, failed |-> TRUE, opened |-> {}]
             ELSE LET h  == LowestFree(t1)
                      t2 == Install(t1, FileOf(file))
                  IN  [t |-> Close(Dup2(t2, h, fd), h), saved |-> saved,
                       failed |-> FALSE, opened |-> {file}]

\* lines 457-468: the try block up to the built-in
RsBuiltinRedirect ==
    /\ pc = "rs_builtin_redirect"
    /\ LET o == Redirect(fds, rs.stdout_file, 1)
           e == IF o.failed
                THEN [t |-> o.t, saved |-> -1, failed |-> TRUE, opened |-> {}]
                ELSE Redirect(o.t, rs.stderr_file, 2)
       IN  /\ fds' = e.t
           /\ rs' = [rs EXCEPT !.original_stdout = o.saved,
                               !.original_stderr = e.saved,
                               !.exc = IF e.failed THEN "Exception" ELSE "none"]
           /\ opened' = opened \cup o.opened \cup e.opened
           /\ pc' = IF e.failed THEN "rs_finally" ELSE "rs_builtin_run"
    /\ UNCHANGED <<input_str, nread, histfile, journal, cwd, command_history, fs, exit_status,
                   pipeVars, written, ran>>

\* lines 470-472: the built-in runs on the redirected descriptors
RsBuiltinRun ==
    /\ pc = "rs_builtin_run"
    /\ LET r == Builtin(rs.command, rs.args, [cwd |-> cwd, hist |-> command_history,
                                              fs |-> fs])
       IN  /\ written' = written \cup Emit(fds, r)
           /\ ran' = ran \cup {RanRecord(0, "builtin", rs.tokens, fds)}
           /\ cwd' = r.cwd
           /\ command_history' = r.hist
           /\ journal' = Journal(journal, command_history, r.hist,
                                 IsAppendCall(rs.command, rs.args) /\ r.result = "ok")
           /\ fs' = r.fs
           /\ rs' = [rs EXCEPT !.exc = IF r.result = "ok" THEN "none" ELSE r.result]
    /\ pc' = "rs_finally"
    /\ UNCHANGED <<input_str, nread, histfile, fds, exit_status, pipeVars, opened>>

\* a restore that forgets os.close(saved)
RestoreNoClose(t, saved, fd) == IF saved = -1 THEN t ELSE Dup2(t, saved, fd)

\* os.dup2(saved, fd); os.close(saved)
Restore(t, saved, fd) == IF saved = -1 THEN t ELSE Close(Dup2(t, saved, fd), saved)

\* lines 474-481: the finally block; then the return, or the exception goes on
RsFinally ==
    /\ pc = "rs_finally"
    /\ fds' = Restore(Restore(fds, rs.original_stdout, 1), rs.original_stderr, 2)
    /\ pc' = IF rs.exc = "none" THEN "read" ELSE "rs_raise"
    /\ UNCHANGED <<input_str, nread, histfile, journal, cwd, command_history, fs, exit_status,
                   rs, pipeVars, obsVars>>

\* the exception leaves run_single_command: no caller catches it
RsRaise ==
    /\ pc = "rs_raise"
    /\ ShellExits(IF rs.exc = "SystemExit" THEN 0 ELSE 1, fs, command_history)
    /\ UNCHANGED <<input_str, nread, histfile, journal, cwd, command_history, rs, pipeVars,
                   obsVars>>

\* The handles of a file object that was never close()d: the function's locals
\* are dropped on return, and the interpreter may or may not have finalized
\* (and so closed) the unreachable file objects by then.
RECURSIVE CloseAll(_, _)
CloseAll(t, handles) ==
    IF handles = {} THEN t
    ELSE LET h == CHOOSE x \in handles : TRUE
         IN  CloseAll(Close(t, h), handles \ {h})

Unclosed(t, handles, collected) ==
    IF collected THEN CloseAll(t, handles \ {-1}) ELSE t

\* lines 488-495: the two open() calls of the external branch
RsExtOpen ==
    /\ pc = "rs_ext_open"
    /\ \E collected \in BOOLEAN :
       LET out_ok == rs.stdout_file # <<>> /\ ~OpenFails(rs.stdout_file)
           t1     == IF out_ok THEN Install(fds, FileOf(rs.stdout_file)) ELSE fds
           h1     == IF out_ok THEN LowestFree(fds) ELSE -1
           out_ex == rs.stdout_file # <<>> /\ OpenFails(rs.stdout_file)
           err_ok == ~out_ex /\ rs.stderr_file # <<>> /\ ~OpenFails(rs.stderr_file)
           t2     == IF err_ok THEN Install(t1, FileOf(rs.stderr_file)) ELSE t1
           h2     == IF err_ok THEN LowestFree(t1) ELSE -1
           err_ex == ~out_ex /\ rs.stderr_file # <<>> /\ OpenFails(rs.stderr_file)
       IN  /\ opened' = opened \cup (IF out_ok THEN {rs.stdout_file} ELSE {})
                               \cup (IF err_ok THEN {rs.stderr_file} ELSE {})
           /\ IF out_ex \/ err_ex
              THEN /\ pc' = "read"
                   /\ fds' = Unclosed(t2, {h1, h2}, collected)
                   /\ written' = written \cup Say(fds, "Error", rs.command)
                   /\ rs' = [rs EXCEPT !.exc = "Exception"]
              ELSE /\ pc' = "rs_ext_run"
                   /\ fds' = t2
                   /\ written' = written
                   /\ rs' = [rs EXCEPT !.stdout_handle = h1, !.stderr_handle = h2]
    /\ UNCHANGED <<input_str, nread, histfile, journal, cwd, command_history, fs, exit_status,
                   pipeVars, ran>>

\* lines 496-506: subprocess.run, which waits for the child, and the two close()
RsExtRun ==
    /\ pc = "rs_ext_run"
    /\ \E spawned \in BOOLEAN, collected \in BOOLEAN :
       LET t == [k \in {1, 2} |->
                    IF k = 1 /\ rs.stdout_handle # -1 THEN fds[rs.stdout_handle]
                    ELSE IF k = 2 /\ rs.stderr_handle # -1 THEN fds[rs.stderr_handle]
                    ELSE fds[k]]
       IN  IF spawned
           THEN /\ ran' = ran \cup {RanRecord(-1, "external", rs.tokens, t)}
                /\ fds' = CloseAll(fds, {rs.stdout_handle, rs.stderr_handle} \ {-1})
                /\ UNCHANGED <<written, rs>>
           ELSE /\ fds' = Unclosed(fds, {rs.stdout_handle, rs.stderr_handle}, collected)
                /\ written' = written \cup Say(fds, "Error", rs.command)
                /\ rs' = [rs EXCEPT !.exc = "Exception"]
                /\ ran' = ran
    /\ pc' = "read"
    /\ UNCHANGED <<input_str, nread, histfile, journal, cwd, command_history, fs, exit_status,
                   pipeVars, opened>>

\* the steps of the read loop and of run_single_command
ShellSteps ==
    \/ ReadEOF
    \/ DispatchPipeline
    \/ DispatchLexError
    \/ DispatchBuiltin
    \/ DispatchExternal
    \/ RsParse
    \/ RsBuiltinRedirect
    \/ RsBuiltinRun
    \/ RsFinally
    \/ RsRaise
    \/ RsExtOpen
    \/ RsExtRun

\* sessions of lines that run one command each
SingleNext ==
    \/ ReadLine(SingleLines, MaxLines)
    \/ ShellSteps

SingleSpec == Init /\ [][SingleNext]_vars

(***************************************************************************)
(* execute_pipeline, lines 314-405, in the shell process                   *)
(***************************************************************************)
L_pwd_cat     == Join(<<W_pwd, W_bar, W_cat>>)
L_ls_cat      == Join(<<W_ls, W_bar, W_cat>>)
L_ls_cat_pwd  == Join(<<W_ls, W_bar, W_cat, W_bar, W_pwd>>)
L_cat_no_cat  == Join(<<W_cat, W_bar, W_nosuch, W_bar, W_cat>>)
L_no_cat      == Join(<<W_nosuch, W_bar, W_cat>>)
L_pwd_no      == Join(<<W_pwd, W_bar, W_nosuch>>)
L_cd_cat      == Join(<<W_cd, DirTmp, W_bar, W_cat>>)
L_exit_cat    == Join(<<W_exit, W_bar, W_cat>>)
L_histr_cat   == Join(<<W_history, W_r, W_h, W_bar, W_cat>>)
L_hista_cat   == Join(<<W_history, W_a, W_h, W_bar, W_cat>>)
L_histx_cat   == Join(<<W_history, W_x, W_bar, W_cat>>)
L_ls_histx    == Join(<<W_ls, W_bar, W_history, W_x>>)
L_lsgt_cat    == Join(<<W_ls, W_gt, W_f, W_bar, W_cat>>)
L_pwdgt_cat   == Join(<<W_pwd, W_gt, W_f, W_bar, W_cat>>)
L_cat_quote   == Join(<<W_cat, W_bar, W_ls, <<"'">>>>)

PipeLines ==
    {L_pwd_cat, L_ls_cat, L_ls_cat_pwd, L_cat_no_cat, L_no_cat, L_pwd_no, L_cd_cat,
     L_exit_cat, L_histr_cat, L_hista_cat, L_histx_cat, L_ls_histx, L_lsgt_cat,
     L_pwdgt_cat, L_cat_quote}

\* one pipe per stage
PipeCountPerStage(n) == n

\* range(len(commands) - 1): the number of pipes of an n-stage pipeline
PipeCount(n) == n - 1

\* the table after k calls of os.pipe(), and the (r_fd, w_fd) pairs
RECURSIVE MakePipes(_, _, _, _)
MakePipes(t, made, k, n) ==
    IF k > n THEN [t |-> t, pipes |-> made]
    ELSE LET r  == LowestFree(t)
             t1 == Install(t, PipeEnd(k, "r"))
             w  == LowestFree(t1)
             t2 == Install(t1, PipeEnd(k, "w"))
         IN  MakePipes(t2, Append(made, [r |-> r, w |-> w]), k + 1, n)

PipeEvents(n) == [k \in 1..n |-> <<"pipe", k>>]

\* lines 319-324
PipeCreate ==
    /\ pc = "pipe_create"
    /\ LET m == MakePipes(fds, <<>>, 1, PipeCount(Len(commands))) IN
       /\ fds' = m.t
       /\ pipes' = m.pipes
       /\ trace' = trace \o PipeEvents(Len(m.pipes))
    /\ processes' = <<>>
    /\ idx' = 1
    /\ pc' = "pipe_loop"
    /\ UNCHANGED <<input_str, nread, histfile, journal, cwd, command_history, fs, exit_status,
                   rs, commands, outcome, child, obsVars>>

\* every descriptor number of the pipes list
AllPipeFds(ps) == {ps[k].r : k \in 1..Len(ps)} \cup {ps[k].w : k \in 1..Len(ps)}

\* os.close on a descriptor that may be closed already (the except: pass)
CloseIfOpen(t, handles) == CloseAll(t, handles \cap DOMAIN t)

\* what fork() gives the child: a copy of the descriptor table, of the working
\* directory and of command_history
ForkedChild(i, kind, p, stdin_fd, stdout_fd) ==
    [stage |-> i, kind |-> kind, command |-> p.command, args |-> p.args,
     tokens |-> p.tokens, stdin_fd |-> stdin_fd, stdout_fd |-> stdout_fd,
     st |-> "forked", fds |-> fds, cwd |-> cwd, hist |-> command_history]

\* lines 327-336 and 356-377: one stage is forked (or fork raises OSError)
PipeForkStage ==
    /\ pc = "pipe_loop"
    /\ idx <= Len(commands)
    /\ ~ShlexRaises(commands[idx])
    /\ LET p         == parse_input(commands[idx])
           n         == Len(commands)
           stdin_fd  == IF idx > 1 THEN pipes[idx - 1].r ELSE -1
           stdout_fd == IF idx < n THEN pipes[idx].w ELSE -1
           kind      == IF is_builtin(p.command) THEN "builtin" ELSE "external"
       IN  /\ is_builtin(p.command) \/ which(p.command) # <<>>
           /\ \E forked \in BOOLEAN :
              IF forked
              THEN /\ child' = Append(child, ForkedChild(idx, kind, p, stdin_fd,
                                                         stdout_fd))
                   /\ processes' = Append(processes, Len(child) + 1)
                   /\ trace' = Append(trace, <<"fork", idx>>)
                   /\ idx' = idx + 1
                   /\ pc' = IF idx = n THEN "pipe_close" ELSE "pipe_loop"
                   /\ UNCHANGED <<outcome, written>>
              ELSE /\ outcome' = "exception"
                   /\ pc' = "pipe_teardown"
                   /\ written' = written \cup Say(fds, "Pipeline error", p.command)
                   /\ UNCHANGED <<child, processes, trace, idx>>
    /\ UNCHANGED <<input_str, nread, histfile, journal, cwd, command_history, fs, fds,
                   exit_status, rs, commands, pipes, ran, opened>>

\* line 328 raises ValueError: the except Exception of line 392
PipeLexError ==
    /\ pc = "pipe_loop"
    /\ idx <= Len(commands)
    /\ ShlexRaises(commands[idx])
    /\ outcome' = "exception"
    /\ pc' = "pipe_teardown"
    /\ written' = written \cup Say(fds, "Pipeline error", commands[idx])
    /\ UNCHANGED <<input_str, nread, histfile, journal, cwd, command_history, fs, fds,
                   exit_status, rs, commands, pipes, processes, idx, child, trace,
                   ran, opened>>

\* lines 338-340: neither a built-in nor in PATH
PipeUnresolved ==
    /\ pc = "pipe_loop"
    /\ idx <= Len(commands)
    /\ ~ShlexRaises(commands[idx])
    /\ LET p == parse_input(commands[idx]) IN
       /\ ~is_builtin(p.command)
       /\ which(p.command) = <<>>
       /\ written' = written \cup Say(fds, "command not found", p.command)
    /\ outcome' = "unresolved"
    /\ pc' = "pipe_teardown"
    /\ UNCHANGED <<input_str, nread, histfile, journal, cwd, command_history, fs, fds,
                   exit_status, rs, commands, pipes, processes, idx, child, trace,
                   ran, opened>>

\* lines 379-384: the shell closes both ends of every pipe
PipeClose ==
    /\ pc = "pipe_close"
    /\ fds' = CloseIfOpen(fds, AllPipeFds(pipes))
    /\ trace' = Append(trace, <<"close", 0>>)
    /\ idx' = 1
    /\ outcome' = "ok"
    /\ pc' = "pipe_wait"
    /\ UNCHANGED <<input_str, nread, histfile, journal, cwd, command_history, fs, exit_status,
                   rs, commands, pipes, processes, child, obsVars>>

\* waiting for the last child first
WaitOrderReversed(procs) == [k \in 1..Len(procs) |-> procs[Len(procs) + 1 - k]]

\* the order in which lines 386-390 wait for the children
WaitOrder(procs) == procs

\* lines 386-390: os.waitpid(pid, 0) returns once the child has ended
PipeWait ==
    /\ pc = "pipe_wait"
    /\ idx <= Len(processes)
    /\ LET pid == WaitOrder(processes)[idx] IN
       /\ child[pid].st = "zombie"
       /\ child' = [child EXCEPT ![pid].st = "reaped"]
       /\ trace' = Append(trace, <<"wait", pid>>)
    /\ idx' = idx + 1
    /\ pc' = IF idx = Len(processes) THEN "read" ELSE "pipe_wait"
    /\ UNCHANGED <<input_str, nread, histfile, journal, cwd, command_history, fs, fds,
                   exit_status, rs, commands, pipes, processes, outcome, obsVars>>

\* a process that SIGTERM reaches ends, unless it has ended already
Terminated(c) ==
    IF c.st \in {"zombie", "reaped"} THEN c ELSE [c EXCEPT !.st = "zombie", !.fds = <<>>]

\* a teardown that misses the first child
TeardownTargetsSkipFirst(procs) == SubSeq(procs, 2, Len(procs))

\* the children lines 348-353 and 400-405 signal and wait for
TeardownTargets(procs) == procs

\* lines 342-347 and 394-399: the pipes are closed on the way out
PipeTeardownClose ==
    /\ pc = "pipe_teardown"
    /\ fds' = CloseIfOpen(fds, AllPipeFds(pipes))
    /\ trace' = Append(trace, <<"close", 0>>)
    /\ idx' = 1
    /\ pc' = IF TeardownTargets(processes) = <<>> THEN "read" ELSE "pipe_kill"
    /\ UNCHANGED <<input_str, nread, histfile, journal, cwd, command_history, fs, exit_status,
                   rs, commands, pipes, processes, outcome, child, obsVars>>

\* lines 348-353 and 400-405: os.kill(pid, SIGTERM); os.waitpid(pid, 0)
PipeKillWait ==
    /\ pc = "pipe_kill"
    /\ idx <= Len(TeardownTargets(processes))
    /\ LET pid == TeardownTargets(processes)[idx] IN
       /\ child' = [child EXCEPT ![pid] = [Terminated(child[pid]) EXCEPT !.st = "reaped"]]
       /\ trace' = trace \o <<(<<"kill", pid>>), (<<"wait", pid>>)>>
    /\ idx' = idx + 1
    /\ pc' = IF idx = Len(TeardownTargets(processes)) THEN "read" ELSE "pipe_kill"
    /\ UNCHANGED <<input_str, nread, histfile, journal, cwd, command_history, fs, fds,
                   exit_status, rs, commands, pipes, processes, outcome, obsVars>>

(***************************************************************************)
(* The forked children of a pipeline                                       *)
(***************************************************************************)
\* the number of lines of a session that runs pipelines
MaxPipeLines == 2

\* lines 300-304 and 358-362: the two dup2 calls of the child
ChildDup2(p) ==
    /\ p \in DOMAIN child
    /\ child[p].st = "forked"
    /\ LET c  == child[p]
           t1 == IF c.stdin_fd # -1 THEN Dup2(c.fds, c.stdin_fd, 0) ELSE c.fds
           t2 == IF c.stdout_fd # -1 THEN Dup2(t1, c.stdout_fd, 1) ELSE t1
       IN  child' = [child EXCEPT ![p].fds = t2, ![p].st = "duped"]
    /\ UNCHANGED <<shellVars, journal, rs, commands, pipes, processes, idx, outcome, trace,
                   obsVars>>

\* lines 364-372: the external child closes every pipe descriptor, then execv
ChildExec(p) ==
    /\ p \in DOMAIN child
    /\ child[p].st = "duped"
    /\ child[p].kind = "external"
    /\ LET t == CloseIfOpen(child[p].fds, AllPipeFds(pipes)) IN
       /\ child' = [child EXCEPT ![p].fds = t, ![p].st = "running"]
       /\ ran' = ran \cup {RanRecord(p, "external", child[p].tokens, t)}
    /\ UNCHANGED <<shellVars, journal, rs, commands, pipes, processes, idx, outcome, trace,
                   written, opened>>

\* the external program ends
ChildExit(p) ==
    /\ p \in DOMAIN child
    /\ child[p].st = "running"
    /\ child' = [child EXCEPT ![p].st = "zombie", ![p].fds = <<>>]
    /\ UNCHANGED <<shellVars, journal, rs, commands, pipes, processes, idx, outcome, trace,
                   obsVars>>

\* a built-in stage run in the shell process itself, without fork
ShellRunsStageBuiltin(r, shell) == [cwd |-> r.cwd, hist |-> r.hist]

\* What the built-in of a pipeline stage leaves of the shell's own working
\* directory and command_history: it runs in the branch pid == 0 of os.fork(),
\* on the child's copies.
ShellAfterStageBuiltin(r, shell) == shell

\* lines 306-310 in the child; SystemExit ends the child through the
\* interpreter's exit (atexit runs); any other exception is caught by the
\* child's copy of the except Exception of line 392, which closes the pipes,
\* signals the pids of its copy of processes and returns into the read loop
ChildBuiltin(p) ==
    /\ p \in DOMAIN child
    /\ child[p].st = "duped"
    /\ child[p].kind = "builtin"
    /\ LET c  == child[p]
           r  == Builtin(c.command, c.args, [cwd |-> c.cwd, hist |-> c.hist, fs |-> fs])
           sh == ShellAfterStageBuiltin(r, [cwd |-> cwd, hist |-> command_history])
           me == [c EXCEPT !.cwd = r.cwd, !.hist = r.hist]
       IN  /\ ran' = ran \cup {RanRecord(p, "builtin", c.tokens, c.fds)}
           /\ cwd' = sh.cwd
           /\ command_history' = sh.hist
           /\ IF r.result = "ok" THEN
                  /\ written' = written \cup Emit(c.fds, r)
                  /\ fs' = r.fs
                  /\ child' = [child EXCEPT ![p] = [me EXCEPT !.st = "zombie",
                                                              !.fds = <<>>]]
              ELSE IF r.result = "SystemExit" THEN
                  /\ written' = written \cup Emit(c.fds, r)
                  /\ fs' = save_history_to_file(r.fs, r.hist)
                  /\ child' = [child EXCEPT ![p] = [me EXCEPT !.st = "zombie",
                                                              !.fds = <<>>]]
              ELSE
                  /\ written' = written \cup Emit(c.fds, r)
                                   \cup Say(c.fds, "Pipeline error", c.command)
                  /\ fs' = r.fs
                  /\ child' = [q \in DOMAIN child |->
                                 IF q = p
                                 THEN [me EXCEPT !.st = "inloop",
                                         !.fds = CloseIfOpen(c.fds, AllPipeFds(pipes))]
                                 ELSE IF q < p THEN Terminated(child[q])
                                 ELSE child[q]]
    /\ UNCHANGED <<pc, input_str, nread, histfile, journal, fds, exit_status, rs, commands,
                   pipes, processes, idx, outcome, trace, opened>>

\* a child that returned into the read loop reads lines until exit or EOF
ChildLoopEnds(p) ==
    /\ p \in DOMAIN child
    /\ child[p].st = "inloop"
    /\ child' = [child EXCEPT ![p].st = "zombie", ![p].fds = <<>>]
    /\ fs' = save_history_to_file(fs, child[p].hist)
    /\ UNCHANGED <<pc, input_str, nread, histfile, journal, cwd, command_history, fds,
                   exit_status, rs, commands, pipes, processes, idx, outcome, trace,
                   obsVars>>

\* the steps of execute_pipeline and of the children
PipeSteps ==
    \/ PipeCreate
    \/ PipeForkStage
    \/ PipeLexError
    \/ PipeUnresolved
    \/ PipeClose
    \/ PipeWait
    \/ PipeTeardownClose
    \/ PipeKillWait
    \/ \E p \in DOMAIN child : ChildDup2(p)
    \/ \E p \in DOMAIN child : ChildExec(p)
    \/ \E p \in DOMAIN child : ChildExit(p)
    \/ \E p \in DOMAIN child : ChildBuiltin(p)
    \/ \E p \in DOMAIN child : ChildLoopEnds(p)

\* sessions of lines that are multi-stage pipelines
PipeNext ==
    \/ ReadLine(PipeLines, MaxPipeLines)
    \/ ReadEOF
    \/ DispatchPipeline
    \/ PipeSteps

PipeSpec == Init /\ [][PipeNext]_vars

\* lines with an empty pipeline stage: leading, trailing, adjacent
L_bar_cat     == Join(<<W_bar, W_cat>>)
L_ls_bar      == Join(<<W_ls, W_bar>>)
L_ls_bar2_cat == Join(<<W_ls, <<"|", "|">>, W_cat>>)
L_pwd_bar_bar == Join(<<W_pwd, W_bar, W_bar>>)

EmptyStageLines == {L_bar_cat, L_ls_bar, L_ls_bar2_cat, L_pwd_bar_bar}

\* the whole shell: every line of the three sets
Next ==
    \/ ReadLine(SingleLines \cup PipeLines \cup EmptyStageLines, MaxLines)
    \/ ShellSteps
    \/ PipeSteps

Spec == Init /\ [][Next]_vars

(***************************************************************************)
(* Sessions of built-in lines: history, exit                               *)
(***************************************************************************)
W_1 == <<"1">>
W_3 == <<"3">>

L_history   == W_history
L_history_1 == Join(<<W_history, W_1>>)
L_history_3 == Join(<<W_history, W_3>>)
L_hist_a_g  == Join(<<W_history, W_a, W_g>>)
L_hist_w_f  == Join(<<W_history, W_w, W_f>>)
L_hist_r_h  == Join(<<W_history, W_r, W_h>>)
L_hist_r    == Join(<<W_history, W_r>>)
L_exit_3    == Join(<<W_exit, W_3>>)
L_type_pwd  == Join(<<W_type, W_pwd>>)
L_type_ls   == Join(<<W_type, W_ls>>)
L_type_echo == Join(<<W_type, W_echo>>)
L_type_no   == Join(<<W_type, W_nosuch>>)

BuiltinLines ==
    {L_blank, L_pwd, L_history, L_history_1, L_history_3, L_hist_a_g, L_hist_w_f,
     L_hist_r_h, L_hist_r, L_history_x, L_exit, L_exit_3, L_type_pwd, L_type_ls,
     L_type_echo, L_type_no}

\* the number of lines of a session of built-in lines
MaxBuiltinLines == 3

BuiltinNext ==
    \/ ReadLine(BuiltinLines, MaxBuiltinLines)
    \/ ReadEOF
    \/ DispatchBuiltin

BuiltinSpec == Init /\ [][BuiltinNext]_vars

(***************************************************************************)
(* Properties                                                              *)
(***************************************************************************)
Range(q) == {q[k] : k \in 1..Len(q)}

EventsOf(kind) == SelectSeq(trace, LAMBDA e : e[1] = kind)

\* the positions of the trace that hold an event of the kind
PositionsOf(kind) == {k \in 1..Len(trace) : trace[k][1] = kind}

StdoutOperators == {W_gt, W_gtgt, W_1gt, W_1gtgt}
StderrOperators == {W_2gt, W_2gtgt}

\* a stage of a pipeline that is neither a built-in nor in PATH
Unresolved(stage) ==
    /\ ~ShlexRaises(stage)
    /\ ~is_builtin(parse_input(stage).command)
    /\ which(parse_input(stage).command) = <<>>

\* the line has been executed and the shell is back at the prompt
LineDone == pc = "read" /\ input_str # <<>>

C2_UnresolvedStageAborts ==
    outcome = "unresolved" =>
        LET i == Len(processes) + 1 IN
        /\ Unresolved(commands[i])
        /\ Len(child) = i - 1
        /\ \A k \in 1..Len(child) : child[k].stage < i
        /\ \A e \in Range(EventsOf("fork")) : e[2] < i
        /\ pc = "read" =>
             /\ PipeFds(fds) = {}
             /\ \A k \in 1..Len(processes) :
                  /\ <<"kill", processes[k]>> \in Range(trace)
                  /\ <<"wait", processes[k]>> \in Range(trace)
                  /\ child[processes[k]].st = "reaped"

\* C2's case: stage 2 of 3 is unresolved, stage 1 had been spawned, and
\* execute_pipeline has returned
C2_Witness ==
    /\ outcome = "unresolved"
    /\ pc = "read"
    /\ Len(commands) = 3
    /\ Len(processes) = 1
    /\ <<"kill", 1>> \in Range(trace)

\* C3: the stages are forked left to right; the shell closes the pipes (both
\* ends of each) after its last fork and before its first wait; the waits are
\* for the spawned children in spawn order, each once, and for all of them
\* when execute_pipeline has returned.
C3_ForkCloseWaitOrder ==
    LET forks == EventsOf("fork")
        waits == EventsOf("wait")
    IN  /\ \A k \in 1..Len(forks) : forks[k][2] = k
        /\ \A c \in PositionsOf("close") :
             /\ \A f \in PositionsOf("fork") : f < c
             /\ \A w \in PositionsOf("wait") : c < w
        /\ PositionsOf("wait") # {} => PositionsOf("close") # {}
        /\ PositionsOf("close") # {} => PipeFds(fds) = {}
        /\ outcome = "ok" => Len(forks) = Len(commands)
        /\ Len(waits) <= Len(processes)
        /\ \A k \in 1..Len(waits) : waits[k][2] = processes[k]
        /\ (pc = "read" /\ Len(commands) > 1) => Len(waits) = Len(processes)

\* C3's case: a three-stage pipeline has run to its end
C3_Witness ==
    /\ pc = "read"
    /\ outcome = "ok"
    /\ Len(processes) = 3
    /\ Len(EventsOf("wait")) = 3

\* the pipe descriptors of a table other than descriptors 0 and 1
ExtraPipeFds(t) == PipeFds(t) \ {0, 1}

\* C4 (as stated): when the command of a pipeline stage starts to run in its
\* child, external or built-in, the child holds no pipe descriptor other than
\* its descriptors 0 and 1.
C4_ChildHoldsOnlyItsStdio ==
    \A r \in ran : r.pid >= 1 => ExtraPipeFds(r.fds) = {}

InPipeline ==
    pc \in {"pipe_create", "pipe_loop", "pipe_close", "pipe_wait", "pipe_teardown",
            "pipe_kill"}

\* C5: no step taken while a multi-stage pipeline is being executed (the
\* built-ins of its stages included) changes the working directory or the
\* command_history of the shell process, or ends the shell process.
C5_PipelineLeavesShellState ==
    [][InPipeline => /\ cwd' = cwd
                     /\ command_history' = command_history
                     /\ pc' # "exited"]_vars

\* C5's case: the pipeline is over; cd ran as its first stage and changed the
\* working directory of its child, not of the shell
C5_Witness ==
    /\ pc = "read"
    /\ outcome = "ok"
    /\ Len(child) = 2
    /\ child[1].command = W_cd
    /\ child[1].cwd = DirTmp
    /\ cwd = DirRoot

\* every stage is a built-in or is found in PATH
AllResolve(cmds) ==
    \A i \in 1..Len(cmds) :
        /\ ~ShlexRaises(cmds[i])
        /\ is_builtin(parse_input(cmds[i]).command)
             \/ which(parse_input(cmds[i]).command) # <<>>

\* n-1 pipes exist, and each was created before the first fork
PipesBeforeForks ==
    /\ Len(pipes) = Len(commands) - 1
    /\ Cardinality(PositionsOf("pipe")) = Len(commands) - 1
    /\ \A q \in PositionsOf("pipe") : \A f \in PositionsOf("fork") : q < f

\* one child per stage, of the stage's kind
OneChildPerStage ==
    /\ Len(child) = Len(commands)
    /\ \A k \in 1..Len(child) :
         /\ child[k].stage = k
         /\ child[k].kind = IF is_builtin(parse_input(commands[k]).command)
                            THEN "builtin" ELSE "external"

HasOperator(tokens, ops) == \E k \in 1..Len(tokens) : tokens[k] \in ops

\* the tokens that follow a redirection operator of the set, in order
TargetsOf(tokens, ops) ==
    LET at == {k \in 1..(Len(tokens) - 1) : tokens[k] \in ops}
    IN  [j \in 1..Cardinality(at) |->
            tokens[1 + CHOOSE k \in at : Cardinality({m \in at : m < k}) = j - 1]]

\* the tokens without the operators of the set and their targets
RECURSIVE WithoutRedirections(_, _)
WithoutRedirections(tokens, ops) ==
    IF tokens = <<>> THEN <<>>
    ELSE IF Head(tokens) \in ops
         THEN WithoutRedirections(IF Len(tokens) >= 2 THEN Tail(Tail(tokens)) ELSE <<>>, ops)
         ELSE <<Head(tokens)>> \o WithoutRedirections(Tail(tokens), ops)

AllOperators == StdoutOperators \cup StderrOperators

\* C7 (as stated): the command of a pipeline stage that carries a stdout
\* redirection runs with its descriptor 1 on the named file, and gets neither
\* a redirection operator nor its target as an argument.
C7_StageRedirectionApplied ==
    \A r \in ran :
        r.pid >= 1 =>
            LET tokens == ShlexSplit(commands[child[r.pid].stage]) IN
            HasOperator(tokens, StdoutOperators) =>
                /\ r.fds[1] = FileOf(TargetsOf(tokens, StdoutOperators)[1])
                /\ r.tokens = WithoutRedirections(tokens, AllOperators)

\* C8 (as stated): a built-in on a line without |, with a stdout redirection,
\* runs with descriptor 1 on the file: its output goes to the file and none to
\* the terminal, and it gets neither the operator nor the target as argument.
C8_BuiltinRedirectionApplied ==
    (LineDone /\ ~Contains(input_str, W_bar) /\ ~ShlexRaises(input_str)) =>
        LET tokens == ShlexSplit(input_str) IN
        (is_builtin(tokens[1]) /\ HasOperator(tokens, StdoutOperators)) =>
            \A r \in ran :
                /\ r.fds[1] = FileOf(TargetsOf(tokens, StdoutOperators)[1])
                /\ r.tokens = WithoutRedirections(tokens, AllOperators)
                /\ \A w \in written : w.to # TTY

\* C9: when run_single_command has run a built-in with a stdout or stderr
\* redirection, then where control leaves it (the return, or the exception
\* going on to the caller) descriptors 1 and 2 of the shell refer to what they
\* referred to on entry and no saved duplicate is open: the descriptor table
\* is the one of the entry.
C9_DescriptorsRestored ==
    (pc \in {"read", "rs_raise"} /\ is_builtin(rs.command)
       /\ (rs.stdout_file # <<>> \/ rs.stderr_file # <<>>)) =>
        /\ fds[1] = rs.entry_fds[1]
        /\ fds[2] = rs.entry_fds[2]
        /\ rs.original_stdout \notin DOMAIN fds
        /\ rs.original_stderr \notin DOMAIN fds
        /\ fds = rs.entry_fds

\* C9's case: the built-in ran with both streams redirected and raised; the
\* finally block has run and the exception leaves run_single_command
C9_Witness ==
    /\ pc = "rs_raise"
    /\ is_builtin(rs.command)
    /\ rs.original_stdout # -1
    /\ rs.original_stderr # -1
    /\ rs.exc = "Exception"
    /\ ran # {}

\* C10 (as stated): of several stdout redirections to different paths only
\* the last path is opened and written to, and the command gets no operator
\* and no target as argument.
C10_LastRedirectionWins ==
    (LineDone /\ ~Contains(input_str, W_bar) /\ ~ShlexRaises(input_str)) =>
        LET tokens  == ShlexSplit(input_str)
            targets == TargetsOf(tokens, StdoutOperators)
        IN  (Len(targets) >= 2 /\ ~is_builtin(tokens[1])) =>
                /\ opened \subseteq {targets[Len(targets)]}
                /\ \A r \in ran :
                     /\ r.fds[1] = FileOf(targets[Len(targets)])
                     /\ r.tokens = WithoutRedirections(tokens, AllOperators)

\* the text between the | of a line without quotes, stripped
StagesOf(line) == [k \in 1..Len(Split(line, W_bar)) |-> Strip(Split(line, W_bar)[k])]

HasEmptyStage(line) ==
    /\ Contains(line, W_bar)
    /\ ~Contains(line, <<"'">>)
    /\ \E k \in 1..Len(StagesOf(line)) : StagesOf(line)[k] = <<>>

\* C11 (as stated): a line with an empty pipeline stage (leading, trailing
\* or adjacent) is rejected as a whole: while it is executed and when the
\* shell is back at the prompt, no command of it has run and no child process
\* has been forked for it.
C11_EmptyStageRejected ==
    (input_str # <<>> /\ HasEmptyStage(input_str)) => (ran = {} /\ child = <<>>)

\* the step that ends the shell process is the EOF at the prompt or the
\* exit built-in
EndsByExitOrEof ==
    \/ pc = "read"
    \/ /\ pc = "dispatch"
       /\ ~Contains(input_str, W_bar)
       /\ ~ShlexRaises(input_str)
       /\ parse_input(input_str).command = W_exit
    \/ pc = "rs_raise" /\ rs.exc = "SystemExit"

\* C12 (as stated): the read loop of the shell stops only at EOF or by the
\* exit built-in; no other line (unterminated quote, a built-in that fails)
\* ends the shell process.
C12_OnlyExitOrEofStops ==
    [][(pc # "exited" /\ pc' = "exited") => EndsByExitOrEof]_vars

\* the shell is about to run the built-in of the line `history -a <file>`
AtAppendCall ==
    /\ pc = "dispatch"
    /\ ~Contains(input_str, W_bar)
    /\ ~ShlexRaises(input_str)
    /\ IsAppendCall(parse_input(input_str).command, parse_input(input_str).args)

AppendTarget == ShlexSplit(Strip(parse_input(input_str).args))[2]

Content(files, path) == IF path \in DOMAIN files THEN files[path] ELSE <<>>

\* the entries that entered the store after the last history -a
Unflushed == SubSeq(journal.entries, journal.flushed + 1, Len(journal.entries))

\* C13: a history -a <file> that returns appends to the file exactly the
\* entries that entered the store since the previous history -a, in insertion
\* order (so each entry is written by -a once); a history -w does not move
\* the mark, so it does not change what the next -a writes.
C13_AppendWritesUnflushed ==
    [][(AtAppendCall /\ pc' = "read")
         => Content(fs', AppendTarget) = Content(fs, AppendTarget) \o Unflushed]_vars

\* a second history -a has returned, after a history -w in between
C13_Witness ==
    /\ LineDone
    /\ input_str = L_hist_a_g
    /\ W_f \in DOMAIN fs
    /\ W_g \in DOMAIN fs
    /\ Len(SelectSeq(fs[W_g], LAMBDA e : e = L_hist_a_g)) = 2
    /\ L_hist_w_f \in Range(fs[W_g])

\* the line is `history N` for a positive integer N
IsHistoryN(line) ==
    /\ ~Contains(line, W_bar)
    /\ ~ShlexRaises(line)
    /\ parse_input(line).command = W_history
    /\ IsNumeral(parse_input(line).args)
    /\ IntOf(parse_input(line).args) > 0

\* the last min(n, Len(store)) entries, each with its position in the store
LastWithPositions(store, n) ==
    {OutLine("history", i, store[i]) :
        i \in ((IF Len(store) > n THEN Len(store) - n ELSE 0) + 1)..Len(store)}

\* C14 (as stated): when `history N` has run, what it printed is the last
\* min(N, number of entries) entries of the store, the `history N` line
\* included, each labelled with its 1-based position in the store, also when
\* N is greater than the number of entries.
C14_HistoryNShowsTruePositions ==
    (LineDone /\ IsHistoryN(input_str))
        => {w.line : w \in written}
             = LastWithPositions(command_history, IntOf(parse_input(input_str).args))

\* C15: the step that reads a line appends exactly one entry, the stripped
\* line, to command_history when the line is not empty, and it does so before
\* anything of the line is executed; an empty or whitespace-only line appends
\* nothing.
C15_OneEntryPerLine ==
    [][nread' # nread =>
         IF Strip(journal'.raw) = <<>>
         THEN command_history' = command_history
         ELSE /\ command_history' = Append(command_history, Strip(journal'.raw))
              /\ input_str' = Strip(journal'.raw)
              /\ pc' = "dispatch"
              /\ ran' = {} /\ written' = {} /\ child' = <<>>]_vars

\* a line was recorded and the blank line read after it was not
C15_Witness ==
    /\ pc = "read"
    /\ nread = 2
    /\ journal.raw = L_blank
    /\ command_history = <<L_pwd>>

\* the shell ended at EOF or by the exit built-in (status 0), not by an
\* uncaught exception
EndedByExitOrEof == pc = "exited" /\ exit_status = 0

\* C16 (as stated): when the shell has ended through EOF or exit with
\* HISTFILE set, HISTFILE holds the full store: every entry loaded at start
\* and every line accepted in the session, one per line, in insertion order.
C16_HistfileHoldsFullStore ==
    (EndedByExitOrEof /\ histfile # <<>>) => Content(fs, histfile) = journal.entries

\* the status the line `exit [N]` asks for
RequestedStatus(line) ==
    IF IsNumeral(parse_input(line).args) THEN IntOf(parse_input(line).args) ELSE 0

EndedByExitLine ==
    /\ pc = "exited"
    /\ input_str # <<>>
    /\ ~Contains(input_str, W_bar)
    /\ ~ShlexRaises(input_str)
    /\ parse_input(input_str).command = W_exit

\* C17 (as stated): the shell ended by `exit N` has exit status N (0 without
\* an argument), and the shell ended by EOF has exit status 0.
C17_ExitStatus ==
    /\ EndedByExitLine => exit_status = RequestedStatus(input_str)
    /\ (pc = "exited" /\ input_str = <<>>) => exit_status = 0

\* what running the name x does: lines 553-556 dispatch to the registry,
\* lines 483-486 and 496 run the program shutil.which finds or report
\* command not found
Resolution(x) ==
    IF is_builtin(x) THEN OutLine("is a shell builtin", 0, x)
    ELSE IF which(x) # <<>> THEN OutLine("is", 0, Join(<<x, which(x)>>))
    ELSE OutLine("not found", 0, x)

\* the line is `type x` for one name x
IsTypeOfName(line) ==
    /\ ~Contains(line, W_bar)
    /\ ~ShlexRaises(line)
    /\ Len(ShlexSplit(line)) = 2
    /\ ShlexSplit(line)[1] = W_type

\* C18 (as stated): when `type x` has run, it has reported a shell builtin
\* exactly when running x dispatches to the registry, the path exactly when
\* running x executes the program at that path, and not found exactly when
\* running x fails with command not found.
C18_TypeAgreesWithResolution ==
    (LineDone /\ IsTypeOfName(input_str))
        => {w.line : w \in written} = {Resolution(ShlexSplit(input_str)[2])}

\* C19 (as stated): a child forked for a pipeline stage execs the external
\* program or exits; it never returns into the read loop, so that the
\* original shell is the only process that reads command lines.
C19_ChildNeverReadsLines ==
    \A p \in DOMAIN child : child[p].st # "inloop"

\* C20 (as stated): command_history is append-only: no step of the shell
\* removes or moves an entry, so that the number of entries never decreases
\* and each entry keeps its 1-based index.
C20_StoreAppendOnly ==
    [][IsPrefix(command_history, command_history')]_vars

====
